---- MODULE Spec2Model ----
(***************************************************************************)
(* Model of the strlen native library (src/native/strlen/src/lib.rs):      *)
(* the four-encoding length measurement SLLength, the linear range         *)
(* SLRange, the composite range SLStringRange and the exported functions   *)
(* ranges, range_from_range, range_from_point, length, replace and         *)
(* shift_after.                                                            *)
(*                                                                         *)
(* isize is modelled as a two's-complement word of WordBits bits.  The     *)
(* source adds and subtracts with the plain operators + and -: a build     *)
(* with overflow checks (debug) panics when a step leaves the word, a      *)
(* build without them (release) wraps.  Both builds are modelled; the      *)
(* variable build says which one runs.                                     *)
(***************************************************************************)
EXTENDS Integers, Sequences, FiniteSets

VARIABLES build, op, args, out, outcome, wrapped, pool

vars == <<build, op, args, out, outcome, wrapped, pool>>

(***************************************************************************)
(* Bounds of the model.                                                    *)
(***************************************************************************)
WordBits == 6      \* width of the modelled isize
MaxTextLen == 2    \* code points in a text passed to length / replace
MaxSegs == 3       \* texts in the list passed to ranges
MaxPool == 3       \* composite ranges a caller keeps while chaining calls

(***************************************************************************)
(* isize arithmetic.                                                       *)
(***************************************************************************)
Modulus == 2 ^ WordBits
MaxInt == (2 ^ (WordBits - 1)) - 1
MinInt == -(2 ^ (WordBits - 1))
ISize == MinInt .. MaxInt

Fits(x) == MinInt <= x /\ x <= MaxInt

\* the value a release build keeps of the mathematical result x
WrapInt(x) == ((x - MinInt) % Modulus) + MinInt

Add(a, b) == WrapInt(a + b)
Sub(a, b) == WrapInt(a - b)
AddOverflows(a, b) == ~Fits(a + b)
SubOverflows(a, b) == ~Fits(a - b)

Builds == {"debug", "release"}

Enc == {"byte", "code", "char", "utf16"}

(***************************************************************************)
(* SLRange and its two constructors.                                       *)
(***************************************************************************)
SLRange == [start : ISize, stop : ISize, length : ISize, step : ISize]

\* start + len - 1 is evaluated left to right: (start + len) - 1
from_sta_len(start, len) ==
    [start |-> start,
     length |-> len,
     stop |-> Sub(Add(start, len), 1),
     step |-> 1]

from_sta_len_overflows(start, len) ==
    AddOverflows(start, len) \/ SubOverflows(Add(start, len), 1)

\* stop - start + 1 is evaluated left to right: (stop - start) + 1
from_sta_sto(start, stop) ==
    [start |-> start,
     stop |-> stop,
     length |-> Add(Sub(stop, start), 1),
     step |-> 1]

from_sta_sto_overflows(start, stop) ==
    SubOverflows(stop, start) \/ AddOverflows(Sub(stop, start), 1)

(***************************************************************************)
(* Text: a sequence of Unicode scalar values.  Five scalar values stand    *)
(* for the classes that the four counts tell apart.                        *)
(***************************************************************************)
CodePoints == {"a", "e", "acute", "jia", "smile"}

\* bytes of the scalar value in UTF-8 (str::len counts these)
Utf8Len(c) ==
    CASE c = "a" -> 1          \* U+0061
      [] c = "e" -> 1          \* U+0065
      [] c = "acute" -> 2      \* U+0301 COMBINING ACUTE ACCENT
      [] c = "jia" -> 3        \* U+5BB6
      [] c = "smile" -> 4      \* U+1F600

\* 16-bit units of the scalar value in UTF-16: 2 beyond the BMP
Utf16Len(c) == IF c = "smile" THEN 2 ELSE 1

\* Grapheme_Cluster_Break = Extend
IsExtend(c) == c = "acute"

RECURSIVE SeqsUpTo(_, _)
SeqsUpTo(S, n) ==
    IF n = 0 THEN {<<>>}
    ELSE LET shorter == SeqsUpTo(S, n - 1)
         IN  shorter \cup {Append(s, x) : s \in shorter, x \in S}

Texts == SeqsUpTo(CodePoints, MaxTextLen)

\* s.len()
RECURSIVE str_len(_)
str_len(s) ==
    IF s = <<>> THEN 0 ELSE Utf8Len(Head(s)) + str_len(Tail(s))

\* s.chars().count()
chars_count(s) == Len(s)

\* s.graphemes(true).count(): a cluster starts at the first scalar value
\* and at every scalar value that is not Extend (rules GB1, GB9, GB999)
graphemes_count(s) ==
    Cardinality({i \in 1 .. Len(s) : i = 1 \/ ~IsExtend(s[i])})

\* s.encode_utf16().count()
RECURSIVE encode_utf16_count(_)
encode_utf16_count(s) ==
    IF s = <<>> THEN 0 ELSE Utf16Len(Head(s)) + encode_utf16_count(Tail(s))

(***************************************************************************)
(* SLLength.                                                               *)
(***************************************************************************)
\* isize::try_from(n) of a usize n is Ok exactly when n fits
try_from_fails(n) == ~Fits(n)

\* SLLength::new with the counts of code and char exchanged
SLLength_new_code_char_swapped(s) ==
    [byte |-> str_len(s),
     code |-> graphemes_count(s),
     char |-> chars_count(s),
     utf16 |-> encode_utf16_count(s)]

SLLength_new(s) ==
    [byte |-> str_len(s),
     code |-> chars_count(s),
     char |-> graphemes_count(s),
     utf16 |-> encode_utf16_count(s)]

\* one of the four unwrap() calls meets an Err
SLLength_new_panics(s) ==
    \/ try_from_fails(str_len(s))
    \/ try_from_fails(chars_count(s))
    \/ try_from_fails(graphemes_count(s))
    \/ try_from_fails(encode_utf16_count(s))

SLLength_zero == [byte |-> 0, code |-> 0, char |-> 0, utf16 |-> 0]

(***************************************************************************)
(* SLStringRange.                                                          *)
(***************************************************************************)
SLStringRange_zero ==
    [byte |-> from_sta_len(0, 0),
     code |-> from_sta_len(0, 0),
     char |-> from_sta_len(0, 0),
     utf16 |-> from_sta_len(0, 0)]

from_point(point, len) ==
    [byte |-> from_sta_len(point, len.byte),
     code |-> from_sta_len(point, len.code),
     char |-> from_sta_len(point, len.char),
     utf16 |-> from_sta_len(point, len.utf16)]

from_point_overflows(point, len) ==
    \/ from_sta_len_overflows(point, len.byte)
    \/ from_sta_len_overflows(point, len.code)
    \/ from_sta_len_overflows(point, len.char)
    \/ from_sta_len_overflows(point, len.utf16)

from_range(range, len) ==
    [byte |-> from_sta_len(Add(range.byte.stop, 1), len.byte),
     code |-> from_sta_len(Add(range.code.stop, 1), len.code),
     char |-> from_sta_len(Add(range.char.stop, 1), len.char),
     utf16 |-> from_sta_len(Add(range.utf16.stop, 1), len.utf16)]

from_range_overflows(range, len) ==
    \E e \in Enc :
        \/ AddOverflows(range[e].stop, 1)
        \/ from_sta_len_overflows(Add(range[e].stop, 1), len[e])

SLStringRange_replace(range, len) ==
    [byte |-> from_sta_len(range.byte.start, len.byte),
     code |-> from_sta_len(range.code.start, len.code),
     char |-> from_sta_len(range.char.start, len.char),
     utf16 |-> from_sta_len(range.utf16.start, len.utf16)]

SLStringRange_replace_overflows(range, len) ==
    \E e \in Enc : from_sta_len_overflows(range[e].start, len[e])

SLStringRange_shift_after(range, prev) ==
    [byte |-> from_sta_len(Add(prev.byte.stop, 1), range.byte.length),
     code |-> from_sta_len(Add(prev.code.stop, 1), range.code.length),
     char |-> from_sta_len(Add(prev.char.stop, 1), range.char.length),
     utf16 |-> from_sta_len(Add(prev.utf16.stop, 1), range.utf16.length)]

SLStringRange_shift_after_overflows(range, prev) ==
    \E e \in Enc :
        \/ AddOverflows(prev[e].stop, 1)
        \/ from_sta_len_overflows(Add(prev[e].stop, 1), range[e].length)

(***************************************************************************)
(* The exported functions (rustler NIFs).                                  *)
(***************************************************************************)
\* Option<isize>: <<>> is None, <<v>> is Some(v)
unwrap_or(opt, default) == IF opt = <<>> THEN default ELSE opt[1]

range_from_point(len, point) == from_point(unwrap_or(point, 0), len)

range_from_point_overflows(len, point) ==
    from_point_overflows(unwrap_or(point, 0), len)

range_from_range(len, range) == from_range(range, len)

range_from_range_overflows(len, range) == from_range_overflows(range, len)

\* the loop of ranges without range = new_range: every text is placed after r
RECURSIVE ranges_loop_stale_range(_, _, _)
ranges_loop_stale_range(strings, range, result) ==
    IF strings = <<>> THEN result
    ELSE LET len == SLLength_new(Head(strings))
             new_range == from_range(range, len)
         IN  ranges_loop_stale_range(Tail(strings), range,
                                     Append(result, new_range))

\* the for loop of ranges: range is the predecessor, result the list so far
RECURSIVE ranges_loop(_, _, _)
ranges_loop(strings, range, result) ==
    IF strings = <<>> THEN result
    ELSE LET len == SLLength_new(Head(strings))
             new_range == from_range(range, len)
         IN  ranges_loop(Tail(strings), new_range, Append(result, new_range))

ranges(strings, r) == ranges_loop(strings, r, <<>>)

RECURSIVE ranges_overflows(_, _)
ranges_overflows(strings, r) ==
    IF strings = <<>> THEN FALSE
    ELSE LET len == SLLength_new(Head(strings))
         IN  \/ from_range_overflows(r, len)
             \/ ranges_overflows(Tail(strings), from_range(r, len))

ranges_panics(strings) ==
    \E i \in 1 .. Len(strings) : SLLength_new_panics(strings[i])

\* the exported function length
length_nif(string) == SLLength_new(string)

replace(range, string) == SLStringRange_replace(range, SLLength_new(string))

replace_overflows(range, string) ==
    SLStringRange_replace_overflows(range, SLLength_new(string))

shift_after(range, prev) == SLStringRange_shift_after(range, prev)

shift_after_overflows(range, prev) ==
    SLStringRange_shift_after_overflows(range, prev)

(***************************************************************************)
(* Arguments a caller passes.  A caller may pass any record of integers:   *)
(* the sub-ranges need not satisfy stop = start + length - 1, and the      *)
(* values reach the ends of the word.                                      *)
(***************************************************************************)
SubRanges ==
    {from_sta_len(0, 0),
     [start |-> 2, stop |-> 4, length |-> 3, step |-> 1],
     [start |-> MinInt, stop |-> 5, length |-> 2, step |-> 2],
     [start |-> MaxInt - 1, stop |-> MaxInt, length |-> 2, step |-> 1]}

RangeArgs ==
    [byte : SubRanges, code : SubRanges, char : SubRanges, utf16 : SubRanges]

PrevSubRanges ==
    {from_sta_len(0, 0),
     [start |-> 1, stop |-> 6, length |-> 0, step |-> 1],
     [start |-> 3, stop |-> MaxInt, length |-> 1, step |-> 1]}

PrevArgs ==
    [byte : PrevSubRanges, code : PrevSubRanges,
     char : PrevSubRanges, utf16 : PrevSubRanges]

LenVals == {0, 1, 3}

LenArgs == [byte : LenVals, code : LenVals, char : LenVals, utf16 : LenVals]

PointArgs == {<<>>, <<0>>, <<2>>, <<-1>>, <<MaxInt>>}

\* the texts of the lists passed to ranges: the empty text, one scalar
\* value of each class, and e followed by the combining accent
SegTexts == SeqsUpTo(CodePoints, 1) \cup {<<"e", "acute">>}

\* the lists of texts passed to ranges
SegLists == SeqsUpTo(SegTexts, MaxSegs)

StartArgs ==
    {SLStringRange_zero,
     from_point(2, SLLength_new(<<"jia">>)),
     [byte |-> from_sta_sto(3, MaxInt), code |-> from_sta_sto(3, MaxInt - 2),
      char |-> from_sta_sto(3, MaxInt - 2), utf16 |-> from_sta_sto(3, MaxInt - 2)]}

(***************************************************************************)
(* One call of a function.  panics: an unwrap() met an Err; overflows: an  *)
(* arithmetic step left the word, which panics in a debug build and wraps  *)
(* in a release build.  The functions keep no state between calls: a call *)
(* starts from the idle caller (op = "none") and TakeResult returns to it. *)
(***************************************************************************)
Return(name, a, panics, overflows, val) ==
    /\ op' = name
    /\ args' = a
    /\ IF panics \/ (overflows /\ build = "debug")
       THEN /\ outcome' = "panic"
            /\ out' = <<>>
            /\ wrapped' = FALSE
       ELSE /\ outcome' = "ok"
            /\ out' = val
            /\ wrapped' = overflows
    /\ UNCHANGED <<build, pool>>

CallFromStaLen ==
    /\ op = "none"
    /\ \E start \in ISize, len \in ISize :
           Return("from_sta_len", [start |-> start, len |-> len],
                  FALSE, from_sta_len_overflows(start, len),
                  from_sta_len(start, len))

CallFromStaSto ==
    /\ op = "none"
    /\ \E start \in ISize, stop \in ISize :
           Return("from_sta_sto", [start |-> start, stop |-> stop],
                  FALSE, from_sta_sto_overflows(start, stop),
                  from_sta_sto(start, stop))

CallRangeFromPoint ==
    /\ op = "none"
    /\ \E len \in LenArgs, point \in PointArgs :
           Return("range_from_point", [len |-> len, point |-> point],
                  FALSE, range_from_point_overflows(len, point),
                  range_from_point(len, point))

CallRangeFromRange ==
    /\ op = "none"
    /\ \E len \in LenArgs, range \in RangeArgs :
           Return("range_from_range", [len |-> len, range |-> range],
                  FALSE, range_from_range_overflows(len, range),
                  range_from_range(len, range))

CallRanges ==
    /\ op = "none"
    /\ \E strings \in SegLists, r \in StartArgs :
           Return("ranges", [strings |-> strings, r |-> r],
                  ranges_panics(strings), ranges_overflows(strings, r),
                  ranges(strings, r))

CallLength ==
    /\ op = "none"
    /\ \E string \in Texts :
           Return("length", [string |-> string],
                  SLLength_new_panics(string), FALSE, length_nif(string))

CallReplace ==
    /\ op = "none"
    /\ \E range \in RangeArgs, string \in Texts :
           Return("replace", [range |-> range, string |-> string],
                  SLLength_new_panics(string), replace_overflows(range, string),
                  replace(range, string))

CallShiftAfter ==
    /\ op = "none"
    /\ \E range \in RangeArgs, prev \in PrevArgs :
           Return("shift_after", [range |-> range, prev |-> prev],
                  FALSE, shift_after_overflows(range, prev),
                  shift_after(range, prev))

\* the caller has read the result (or caught the panic) of the last call
TakeResult ==
    /\ op # "none"
    /\ op' = "none"
    /\ args' = <<>>
    /\ out' = <<>>
    /\ outcome' = "ok"
    /\ wrapped' = FALSE
    /\ UNCHANGED <<build, pool>>

Init ==
    /\ build \in Builds
    /\ op = "none"
    /\ args = <<>>
    /\ out = <<>>
    /\ outcome = "ok"
    /\ wrapped = FALSE
    /\ pool = {SLStringRange_zero}

Next ==
    \/ CallFromStaLen
    \/ CallFromStaSto
    \/ CallRangeFromPoint
    \/ CallRangeFromRange
    \/ CallRanges
    \/ CallLength
    \/ CallReplace
    \/ CallShiftAfter
    \/ TakeResult

Spec == Init /\ [][Next]_vars

(***************************************************************************)
(* Chained calls: a caller that starts from the zero composite range,      *)
(* measures valid texts, and passes only ranges that earlier calls         *)
(* returned.  pool holds the ranges it has.                                *)
(***************************************************************************)
ReachPoints == {0, 1, MaxInt}

\* the elements of a returned list
Elements(list) == {list[i] : i \in 1 .. Len(list)}

Keep(panics, overflows, vals) ==
    /\ IF panics \/ (overflows /\ build = "debug")
       THEN /\ outcome' = "panic"
            /\ wrapped' = FALSE
            /\ pool' = pool
       ELSE LET kept == pool \cup vals
            IN  /\ Cardinality(kept) <= MaxPool
                /\ outcome' = "ok"
                /\ wrapped' = overflows
                /\ pool' = kept
    /\ UNCHANGED <<build, op, args, out>>

ChainFromPoint ==
    \E point \in ReachPoints, string \in SegTexts :
        LET len == length_nif(string)
        IN  Keep(SLLength_new_panics(string),
                 range_from_point_overflows(len, <<point>>),
                 {range_from_point(len, <<point>>)})

ChainFromRange ==
    \E range \in pool, string \in SegTexts :
        LET len == length_nif(string)
        IN  Keep(SLLength_new_panics(string),
                 range_from_range_overflows(len, range),
                 {range_from_range(len, range)})

ChainReplace ==
    \E range \in pool, string \in SegTexts :
        Keep(SLLength_new_panics(string), replace_overflows(range, string),
             {replace(range, string)})

ChainShiftAfter ==
    \E range \in pool, prev \in pool :
        Keep(FALSE, shift_after_overflows(range, prev),
             {shift_after(range, prev)})

ChainRanges ==
    \E strings \in SegLists, r \in pool :
        Keep(ranges_panics(strings), ranges_overflows(strings, r),
             Elements(ranges(strings, r)))

NextReach ==
    \/ ChainFromPoint
    \/ ChainFromRange
    \/ ChainReplace
    \/ ChainShiftAfter
    \/ ChainRanges

SpecReach == Init /\ [][NextReach]_vars

(***************************************************************************)
(* Properties.  Arithmetic in a property is that of the integers, not the  *)
(* wrapping arithmetic of the word.                                        *)
(***************************************************************************)
\* the relation a linear range keeps between its fields
LinearInvariant(range) ==
    /\ range.length = range.stop - range.start + 1
    /\ range.stop = range.start + range.length - 1
    /\ range.step = 1

\* sub-range e of composite is the range of length len that starts at start
StartsWithLength(composite, e, start, len) ==
    /\ composite[e].start = start
    /\ composite[e].length = len
    /\ composite[e].stop = start + len - 1

\* C1: for every composite range R and measurement M, the composite range
\* that range_from_range(M, R) returns has, in each encoding,
\* start = R.<enc>.stop + 1, length = M.<enc> and stop = start + length - 1,
\* each a function of the same encoding's fields alone.
C1_FromRangeStartsAfterStop ==
    (op = "range_from_range" /\ outcome = "ok") =>
        \A e \in Enc :
            StartsWithLength(out, e, args.range[e].stop + 1, args.len[e])

\* C1 on the calls in which no arithmetic step leaves the word.
FromRangeAbsentOverflow ==
    (op = "range_from_range"
        /\ ~range_from_range_overflows(args.len, args.range)) =>
        /\ outcome = "ok"
        /\ \A e \in Enc :
               StartsWithLength(out, e, args.range[e].stop + 1, args.len[e])

\* the predecessor of element i of the list ranges(strings, r) returned
Predecessor(i) == IF i = 1 THEN args.r ELSE out[i - 1]

\* C2: for every list of texts S and every starting range, the list that
\* ranges(S, start) returns has Len(S) composite ranges, element i being
\* from_range of its predecessor (start for the first) and the measurement
\* of S[i]; an empty text is not skipped: its range has length 0,
\* start = predecessor.stop + 1 and stop = predecessor.stop.
C2_RangesFoldsFromRange ==
    (op = "ranges" /\ outcome = "ok") =>
        /\ Len(out) = Len(args.strings)
        /\ \A i \in 1 .. Len(out) :
               /\ out[i] = from_range(Predecessor(i), SLLength_new(args.strings[i]))
               /\ args.strings[i] = <<>> =>
                      \A e \in Enc :
                          /\ out[i][e].length = 0
                          /\ out[i][e].start = Predecessor(i)[e].stop + 1
                          /\ out[i][e].stop = Predecessor(i)[e].stop

\* C2 on the calls in which no arithmetic step leaves the word.
RangesAbsentOverflow ==
    (op = "ranges" /\ ~ranges_overflows(args.strings, args.r)) =>
        /\ outcome = "ok"
        /\ Len(out) = Len(args.strings)
        /\ \A i \in 1 .. Len(out) :
               /\ out[i] = from_range(Predecessor(i), SLLength_new(args.strings[i]))
               /\ args.strings[i] = <<>> =>
                      \A e \in Enc :
                          /\ out[i][e].length = 0
                          /\ out[i][e].start = Predecessor(i)[e].stop + 1
                          /\ out[i][e].stop = Predecessor(i)[e].stop

\* the measured length, in encoding e, of the first n texts of strings
RECURSIVE SumOfLengths(_, _, _)
SumOfLengths(strings, e, n) ==
    IF n = 0 THEN 0
    ELSE SLLength_new(strings[n])[e] + SumOfLengths(strings, e, n - 1)

\* C3: sequenced from the zero composite range, range i starts, in each
\* encoding, at the sum of the measured lengths of the texts before it and
\* stops at start + (its own measured length) - 1, so the first starts at 0
\* and consecutive ranges are adjacent; texts of 1, 3, 3 bytes and 1, 1, 1
\* clusters get byte starts 0, 1, 4, byte stops 0, 3, 6, cluster starts
\* 0, 1, 2 and cluster stops 0, 1, 2.
C3_AdjacentFromZero ==
    (op = "ranges" /\ args.r = SLStringRange_zero) =>
        /\ outcome = "ok"
        /\ Len(out) = Len(args.strings)
        /\ \A i \in 1 .. Len(out) : \A e \in Enc :
               /\ out[i][e].start = SumOfLengths(args.strings, e, i - 1)
               /\ out[i][e].stop =
                      out[i][e].start + SLLength_new(args.strings[i])[e] - 1
               /\ i > 1 => out[i][e].start = out[i - 1][e].stop + 1
        /\ (/\ Len(args.strings) = 3
            /\ \A i \in 1 .. 3 :
                   /\ SLLength_new(args.strings[i]).byte = <<1, 3, 3>>[i]
                   /\ SLLength_new(args.strings[i]).char = 1) =>
               \A i \in 1 .. 3 :
                   /\ out[i].byte.start = <<0, 1, 4>>[i]
                   /\ out[i].byte.stop = <<0, 3, 6>>[i]
                   /\ out[i].char.start = <<0, 1, 2>>[i]
                   /\ out[i].char.stop = <<0, 1, 2>>[i]

\* ranges(["a", "e" + U+0301, U+5BB6], zero) has returned its three ranges
C3_Witness ==
    /\ op = "ranges"
    /\ args.r = SLStringRange_zero
    /\ args.strings = << <<"a">>, <<"e", "acute">>, <<"jia">> >>
    /\ outcome = "ok"
    /\ out[3].byte = from_sta_sto(4, 6)
    /\ out[3].char = from_sta_sto(2, 2)
    /\ out[2].code = from_sta_sto(1, 2)

\* C4: every linear range that from_sta_len(start, len) or
\* from_sta_sto(start, stop) returns has length = stop - start + 1,
\* stop = start + length - 1 and step = 1; built with length 0 its stop is
\* start - 1; and from_sta_len(s, l) equals from_sta_sto(s, s + l - 1) for
\* s and l within the word's range.  Stated for the lengths a valid
\* construction has: len >= 0, stop >= start - 1.
C4_ConstructorsKeepInvariant ==
    /\ (op = "from_sta_len" /\ outcome = "ok" /\ args.len >= 0) =>
           /\ LinearInvariant(out)
           /\ args.len = 0 => out.stop = out.start - 1
           /\ Fits(args.start + args.len - 1) =>
                  out = from_sta_sto(args.start, args.start + args.len - 1)
    /\ (op = "from_sta_sto" /\ outcome = "ok"
           /\ args.stop >= args.start - 1) =>
           LinearInvariant(out)

\* C4 on the calls in which no arithmetic step leaves the word.
ConstructorsAbsentOverflow ==
    /\ (op = "from_sta_len"
           /\ ~from_sta_len_overflows(args.start, args.len)) =>
           /\ outcome = "ok"
           /\ LinearInvariant(out)
           /\ args.len = 0 => out.stop = out.start - 1
           /\ out = from_sta_sto(args.start, args.start + args.len - 1)
    /\ (op = "from_sta_sto"
           /\ ~from_sta_sto_overflows(args.start, args.stop)) =>
           /\ outcome = "ok"
           /\ LinearInvariant(out)
           /\ out.start = args.start
           /\ out.stop = args.stop
           /\ out = from_sta_len(args.start, args.stop - args.start + 1)

\* C5: for every composite range R and text, the composite range that
\* replace(R, text) returns keeps R's start in each encoding and has
\* length = M.<enc> and stop = R.<enc>.start + M.<enc> - 1, M being the
\* measurement of the text; R's stop and length have no part in it.
C5_ReplaceKeepsStart ==
    (op = "replace" /\ outcome = "ok") =>
        \A e \in Enc :
            StartsWithLength(out, e, args.range[e].start,
                             SLLength_new(args.string)[e])

\* C5 on the calls in which no arithmetic step leaves the word.
ReplaceAbsentOverflow ==
    (op = "replace" /\ ~replace_overflows(args.range, args.string)) =>
        /\ outcome = "ok"
        /\ \A e \in Enc :
               StartsWithLength(out, e, args.range[e].start,
                                SLLength_new(args.string)[e])

\* C6: for every pair of composite ranges R and P, the composite range that
\* shift_after(R, P) returns keeps R's length in each encoding and has
\* start = P.<enc>.stop + 1 and stop = start + length - 1; R's start and
\* P's start and length have no part in it.
C6_ShiftAfterKeepsLength ==
    (op = "shift_after" /\ outcome = "ok") =>
        \A e \in Enc :
            StartsWithLength(out, e, args.prev[e].stop + 1,
                             args.range[e].length)

\* C6 on the calls in which no arithmetic step leaves the word.
ShiftAfterAbsentOverflow ==
    (op = "shift_after" /\ ~shift_after_overflows(args.range, args.prev)) =>
        /\ outcome = "ok"
        /\ \A e \in Enc :
               StartsWithLength(out, e, args.prev[e].stop + 1,
                                args.range[e].length)

\* C7: range arithmetic never wraps silently and never panics on overflow:
\* no call ends in a panic, and no call returns fields that hold a wrapped
\* value.
C7_NoSilentWrapNoPanic ==
    op # "none" => (outcome # "panic" /\ ~wrapped)

\* C8: the measurement of every text has 0 <= char <= code <= byte and
\* code <= utf16; the measurement of the empty text is SLLength::zero().
C8_MeasurementOrdered ==
    op = "length" =>
        /\ outcome = "ok"
        /\ 0 <= out.char
        /\ out.char <= out.code
        /\ out.code <= out.byte
        /\ out.code <= out.utf16
        /\ 0 <= out.utf16
        /\ args.string = <<>> => out = SLLength_zero

\* length("e" + U+0301) has returned 3 bytes, 2 scalar values, 1 cluster
C8_Witness ==
    /\ op = "length"
    /\ args.string = <<"e", "acute">>
    /\ outcome = "ok"
    /\ out = [byte |-> 3, code |-> 2, char |-> 1, utf16 |-> 2]

\* C9: for every measurement M and point, the composite range that
\* range_from_point(M, point) returns has, in each encoding, start = p,
\* length = M.<enc> and stop = p + M.<enc> - 1, where p is the point, or 0
\* when the point is absent.
C9_FromPointSameStart ==
    (op = "range_from_point" /\ outcome = "ok") =>
        LET p == IF args.point = <<>> THEN 0 ELSE args.point[1]
        IN  /\ \A e \in Enc : StartsWithLength(out, e, p, args.len[e])
            /\ args.point = <<>> => out = from_point(0, args.len)

\* C9 on the calls in which no arithmetic step leaves the word.
FromPointAbsentOverflow ==
    (op = "range_from_point"
        /\ ~range_from_point_overflows(args.len, args.point)) =>
        LET p == IF args.point = <<>> THEN 0 ELSE args.point[1]
        IN  /\ outcome = "ok"
            /\ \A e \in Enc : StartsWithLength(out, e, p, args.len[e])
            /\ args.point = <<>> => out = from_point(0, args.len)

\* C10: every composite range reached from the zero composite range by
\* from_point (point >= 0), from_range, replace, shift_after and ranges
\* with measurements of valid texts has, in each encoding, length >= 0,
\* start >= 0, stop = start + length - 1 and step = 1, and its starts are
\* ordered char <= code <= utf16 <= byte.
C10_ReachableRangesWellFormed ==
    \A range \in pool :
        /\ \A e \in Enc :
               /\ range[e].length >= 0
               /\ range[e].start >= 0
               /\ range[e].stop = range[e].start + range[e].length - 1
               /\ range[e].stop >= range[e].start - 1
               /\ range[e].step = 1
        /\ range.char.start <= range.code.start
        /\ range.code.start <= range.utf16.start
        /\ range.utf16.start <= range.byte.start

\* C10 while no call has wrapped: a debug build, which panics instead.
ReachableAbsentOverflow ==
    build = "debug" => C10_ReachableRangesWellFormed

====
